---- MODULE Spec2Model ----
(***************************************************************************)
(* A model of sagemaker_containers/_modules.py: fetching a user module     *)
(* (an s3 archive or a local directory), preparing it (setup.py),          *)
(* installing it with pip, and importing it or running it as a child       *)
(* process.                                                                *)
(*                                                                         *)
(* Strings that the code takes apart are sequences of tokens: a uri is     *)
(* <<scheme prefix, rest...>>, a path is the sequence of its components    *)
(* (os.path.join appends), a command line string is a sequence of words    *)
(* and " " separators (shlex.split drops the separators, ' '.join puts     *)
(* one between every two words).                                           *)
(***************************************************************************)
EXTENDS Integers, Sequences, FiniteSets, TLC

\* ------------------------------------------------------------------ bounds

\* Calls made on the module in one behaviour.
MaxCalls == 2

\* ------------------------------------------------------- program constants

DEFAULT_MODULE_NAME == "default_user_module_name"

\* The unit the user's script provides (test: user_module = 'my_test_script').
USER_MODULE == "my_test_script"

Names == {USER_MODULE, DEFAULT_MODULE_NAME}

\* ------------------------------------------------------------ input domains

LocalDir == <<"/opt/ml/code">>
MissingDir == <<"/opt/ml/missing">>

UriS3 == <<"s3://", "bucket", "sourcedir.tar.gz">>
UriLocal == LocalDir
UriFile == <<"file://">> \o LocalDir
UriHttp == <<"http://", "host", "sourcedir.tar.gz">>

Uris == {UriS3, UriLocal, UriFile, UriHttp}

\* Exit codes a child process may end with (a negative one: killed by a signal).
ExitCodes == {0, 3, 0 - 9}

ArgLists == {<< >>, <<"--x", "1">>}

\* An environment is a function from variable names to values. The ambient one
\* holds a variable the overlay leaves alone and one it overrides; the overlay
\* brings one of its own.
AmbientEnvs == {[k \in {"PATH", "FOO"} |-> IF k = "PATH" THEN "/usr/bin" ELSE "old"]}

Overlays == {[k \in {} |-> "bar"], [k \in {"FOO", "MODEL_DIR"} |-> IF k = "FOO" THEN "bar" ELSE "/opt/ml/model"]}

\* sys.executable: the interpreter's path, or empty when Python cannot tell.
Executables == {<<"/usr/bin/python">>, << >>}

\* What running a unit's top-level code does.
Behaviours == {"ok", "raises_ValueError", "raises_ImportError"}

\* ------------------------------------------------------------- file system

FileNames == {"setup.py", "setup.cfg", "MANIFEST.in", "requirements.txt", "script.py", "tar_file"}

Absent == << >>

UserFile == <<"user">>

ScriptFile(unit, behaviour) == <<"script", unit, behaviour>>

EmptyDir == [f \in FileNames |-> Absent]

\* A directory holding the given files (a function from some file names to contents).
DirWith(files) == [f \in FileNames |-> IF f \in DOMAIN files THEN files[f] ELSE Absent]

\* os.path.join(path, name) for a directory below path.
PathJoin(path, name) == path \o <<name>>

\* os.path.exists(os.path.join(path, file)).
FileExists(fsv, path, file) == path \in DOMAIN fsv /\ fsv[path][file] # Absent

IsPrefix(p, q) == Len(p) <= Len(q) /\ SubSeq(q, 1, Len(p)) = p

\* The archive stored in the bucket: the user's script and a requirements file.
S3Archive == DirWith([f \in {"script.py", "requirements.txt"} |->
                        IF f = "script.py" THEN ScriptFile(USER_MODULE, "ok") ELSE UserFile])

\* The local directories a container may start with: the script, with or without
\* its own setup.py, setup.cfg and requirements.txt.
LocalDirWith(b, extra) ==
  DirWith([f \in ({"script.py"} \cup extra) |->
             IF f = "script.py" THEN ScriptFile(USER_MODULE, b) ELSE UserFile])

LocalDirStates ==
  { LocalDirWith(b, extra) :
      b \in {"ok", "raises_ValueError"},
      extra \in {{}, {"setup.cfg"}, {"setup.py", "requirements.txt"}} }
    \cup {LocalDirWith("raises_ImportError", {"requirements.txt"})}

\* ------------------------------------------------------------ pure helpers

\* uri.startswith('s3://')
StartsWithS3(uri) == Len(uri) > 0 /\ uri[1] = "s3://"

NotFileScheme(t) == t # "file://"

\* uri.replace('file://', ''): every occurrence is removed, wherever it stands.
StripFileScheme(uri) == SelectSeq(uri, NotFileScheme)

\* urlparse(url).scheme
UrlScheme(uri) ==
  IF Len(uri) = 0 THEN ""
  ELSE CASE uri[1] = "s3://" -> "s3"
         [] uri[1] = "http://" -> "http"
         [] uri[1] = "file://" -> "file"
         [] OTHER -> ""

\* The environment E with the overlay O written over it: the loop
\* os.environ[name] = value over O's items.
WriteEnvVarsResult(E, O) ==
  [k \in (DOMAIN E) \cup (DOMAIN O) |-> IF k \in DOMAIN O THEN O[k] ELSE E[k]]

NotSpace(t) == t # " "

\* shlex.split(cmd) on a command line of words and " " separators.
ShlexSplit(cmdstr) == SelectSeq(cmdstr, NotSpace)

RECURSIVE Join(_)
\* ' '.join(cmd)
Join(cmd) == IF Len(cmd) <= 1 THEN cmd ELSE <<cmd[1], " ">> \o Join(Tail(cmd))

\* A variant of InstallCmdString that never names the requirements file.
InstallCmdString_NoRequirements(exe, hasRequirements) ==
  Join(exe \o <<"-m", "pip", "install", "-U", ".">>) \o <<" ">>

\* install's cmd: '%s -m pip install -U . ' % python_executable(), then
\* '-r requirements.txt' when the directory holds a requirements file.
InstallCmdString(exe, hasRequirements) ==
  Join(exe \o <<"-m", "pip", "install", "-U", ".">>) \o <<" ">>
    \o (IF hasRequirements THEN <<"-r", " ", "requirements.txt">> ELSE << >>)

\* run's cmd: [python_executable(), '-m', module_name] + args
RunCmd(exe, module_name, cmdargs) == exe \o <<"-m", module_name>> \o cmdargs

\* ----------------------------------------------------------------- errors

Err(type, rc, cmd, cause) == [type |-> type, rc |-> rc, cmd |-> cmd, cause |-> cause]

NoErr == Err("none", 0, << >>, "none")

Returned(value) == [status |-> "returned", value |-> value, err |-> NoErr]

Raised(e) == [status |-> "raised", value |-> "none", err |-> e]

NoResult == [status |-> "none", value |-> "none", err |-> NoErr]

\* A variant of CheckErrorResult that takes only positive return codes for
\* failures: a child killed by a signal (a negative code) passes.
CheckErrorResult_PositiveOnly(return_code, cmd, error_class) ==
  IF return_code > 0
    THEN Raised(Err(error_class, return_code, Join(cmd), "none"))
    ELSE Returned("process")

\* _check_error once process.wait() gave return_code: raise error_class with
\* the return code and the joined command, or return the process.
CheckErrorResult(return_code, cmd, error_class) ==
  IF return_code # 0
    THEN Raised(Err(error_class, return_code, Join(cmd), "none"))
    ELSE Returned("process")

\* ---------------------------------------------------------------- prepare

GenSetupPy(name) == <<"generated setup.py", name>>
GenSetupCfg == <<"generated setup.cfg">>
GenManifestIn == <<"generated MANIFEST.in">>

\* The directory after the three _files.write_file calls of prepare.
WriteSetupFiles(dir, name) ==
  [dir EXCEPT !["setup.py"] = GenSetupPy(name),
              !["setup.cfg"] = GenSetupCfg,
              !["MANIFEST.in"] = GenManifestIn]

\* A variant of PrepareFs without the check for an existing setup.py.
PrepareFs_Always(fsv, path, name) ==
  IF path \in DOMAIN fsv
    THEN [fsv EXCEPT ![path] = WriteSetupFiles(fsv[path], name)]
    ELSE fsv

\* prepare(path, name) on the file system fsv: nothing when setup.py exists.
PrepareFs(fsv, path, name) ==
  IF FileExists(fsv, path, "setup.py")
    THEN fsv
    ELSE [fsv EXCEPT ![path] = WriteSetupFiles(fsv[path], name)]

\* _files.write_file opens the file for writing: it fails when the directory
\* it is to write into does not exist.
WriteFileFails(fsv, path) == path \notin DOMAIN fsv

\* ------------------------------------------------------------ import system

\* importlib.import_module(name): "cached" when the unit is in sys.modules,
\* "ImportError" when no such unit is installed, else what running the unit's
\* top-level code does.
ImportOutcome(name, inst, mods) ==
  IF name \in mods THEN "cached"
  ELSE CASE inst[name] = "none" -> "ImportError"
         [] inst[name] = "ok" -> "ok"
         [] inst[name] = "raises_ValueError" -> "ValueError"
         [] OTHER -> "ImportError"

\* exists(name): True, False, or the exception that escapes `except ImportError`.
ExistsOutcome(name, inst, mods) ==
  LET o == ImportOutcome(name, inst, mods)
  IN  CASE o \in {"cached", "ok"} -> "True"
        [] o = "ImportError" -> "False"
        [] OTHER -> o

\* six.moves.reload_module(module): the unit's installed code is run again.
ReloadOutcome(name, inst) ==
  CASE inst[name] = "ok" -> "ok"
    [] inst[name] = "raises_ValueError" -> "ValueError"
    [] OTHER -> "ImportError"

\* The try block of import_module: import, then reload.
ImportAndReload(name, inst, mods) ==
  LET o == ImportOutcome(name, inst, mods)
  IN  IF o \in {"cached", "ok"} THEN ReloadOutcome(name, inst) ELSE o

\* import_module's result from the try block's outcome: every Exception is
\* re-raised as ImportModuleError(e).
ImportModuleResult(outcome) ==
  IF outcome = "ok"
    THEN Returned("module")
    ELSE Raised(Err("ImportModuleError", 0, << >>, outcome))

\* ------------------------------------------------------------------ state

VARIABLES
  fs,          \* the file system: existing directory path -> file name -> content
  installed,   \* unit name -> "none" or the behaviour of the installed unit
  loaded,      \* sys.modules: the units imported in this process
  env,         \* os.environ
  executable,  \* sys.executable
  pc,          \* where the running call stands ("idle", "done" between calls)
  op,          \* the function the caller called
  args,        \* its arguments
  module_path, \* download_and_install's module_path (install's and prepare's path)
  tmpdir,      \* the directory _files.tmpdir() yielded, << >> outside the block
  tmpCount,    \* temporary directories created so far
  proc,        \* the child process this call spawned last
  result,      \* what the call returned or raised
  calls,       \* calls made so far
  nFetch,      \* this call's fetches (an s3 download or a local path taken)
  nPrepare,    \* this call's prepare calls
  nInstall,    \* this call's installer processes
  nSpawn,      \* this call's user script processes
  nImport,     \* this call's in-process imports by import_module's try block
  env0,        \* os.environ when the call began
  fs0,         \* the file system when prepare began
  exists0,     \* what exists(name) would have given when the call began
  workdir      \* the s3 working directory of this call, << >> when none

vars == <<fs, installed, loaded, env, executable, pc, op, args, module_path, tmpdir,
          tmpCount, proc, result, calls, nFetch, nPrepare, nInstall, nSpawn, nImport,
          env0, fs0, exists0, workdir>>

NoProc == [kind |-> "none", cmd |-> << >>, env |-> [k \in {} |-> ""], cwd |-> << >>,
           state |-> "none", rc |-> 0]

NoArgs == [uri |-> << >>, name |-> DEFAULT_MODULE_NAME, cache |-> TRUE,
           env_vars |-> [k \in {} |-> ""], wait |-> TRUE, cmdargs |-> << >>]

\* mkdtemp: a directory name never given before.
TmpDir(n) == <<"/tmp", ToString(n)>>

Init ==
  /\ fs \in {[d \in {LocalDir} |-> c] : c \in LocalDirStates}
  /\ installed = [n \in Names |-> "none"]
  /\ loaded = {}
  /\ env \in AmbientEnvs
  /\ executable \in Executables
  /\ pc = "idle"
  /\ op = "none"
  /\ args = NoArgs
  /\ module_path = << >>
  /\ tmpdir = << >>
  /\ tmpCount = 0
  /\ proc = NoProc
  /\ result = NoResult
  /\ calls = 0
  /\ nFetch = 0 /\ nPrepare = 0 /\ nInstall = 0 /\ nSpawn = 0 /\ nImport = 0
  /\ env0 = env
  /\ fs0 = fs
  /\ exists0 = "False"
  /\ workdir = << >>

\* ------------------------------------------------------------------- calls

\* The caller calls function f with arguments a; the call starts at step `first`
\* with path as install's or prepare's argument.
Call(f, a, first, path) ==
  /\ pc \in {"idle", "done"}
  /\ calls < MaxCalls
  /\ calls' = calls + 1
  /\ op' = f
  /\ args' = a
  /\ pc' = first
  /\ module_path' = path
  /\ tmpdir' = << >>
  /\ workdir' = << >>
  /\ proc' = NoProc
  /\ result' = NoResult
  /\ nFetch' = 0 /\ nPrepare' = 0 /\ nInstall' = 0 /\ nSpawn' = 0 /\ nImport' = 0
  /\ env0' = env
  /\ fs0' = fs
  /\ exists0' = ExistsOutcome(a.name, installed, loaded)
  /\ UNCHANGED <<fs, installed, loaded, env, executable, tmpCount>>

CallDownloadAndInstall ==
  \E uri \in Uris, name \in Names, cache \in BOOLEAN :
    Call("download_and_install",
         [NoArgs EXCEPT !.uri = uri, !.name = name, !.cache = cache], "dai", << >>)

CallImportModule ==
  \E uri \in Uris, name \in Names, cache \in BOOLEAN :
    Call("import_module",
         [NoArgs EXCEPT !.uri = uri, !.name = name, !.cache = cache], "dai", << >>)

CallRunModule ==
  \E uri \in Uris, name \in Names, cache \in BOOLEAN, o \in Overlays,
     wait \in BOOLEAN, a \in ArgLists :
    Call("run_module",
         [NoArgs EXCEPT !.uri = uri, !.name = name, !.cache = cache, !.env_vars = o,
                        !.wait = wait, !.cmdargs = a], "dai", << >>)

CallRun ==
  \E name \in Names, o \in Overlays, wait \in BOOLEAN, a \in ArgLists :
    Call("run",
         [NoArgs EXCEPT !.name = name, !.env_vars = o, !.wait = wait, !.cmdargs = a],
         "run", << >>)

CallInstall ==
  \E path \in {LocalDir, MissingDir} :
    Call("install", NoArgs, "install", path)

CallPrepare ==
  \E path \in {LocalDir, MissingDir}, name \in Names :
    Call("prepare", [NoArgs EXCEPT !.name = name], "prepare", path)

CallWriteEnvVars ==
  \E o \in Overlays :
    Call("write_env_vars", [NoArgs EXCEPT !.env_vars = o], "write_env", << >>)

\* ------------------------------------------------------------ continuations

\* A variant of AfterDownloadAndInstall in which run_module spawns the child
\* without writing the overlay first.
AfterDownloadAndInstall_SkipWrite(f) ==
  CASE f = "import_module" -> "import"
    [] f = "run_module" -> "run"
    [] OTHER -> "done"

\* Where the caller of download_and_install goes on when it returns.
AfterDownloadAndInstall(f) ==
  CASE f = "import_module" -> "import"
    [] f = "run_module" -> "write_env"
    [] OTHER -> "done"

\* After prepare: download_and_install goes on to install(module_path).
AfterPrepare(f) == IF f = "prepare" THEN "done" ELSE "install"

\* After install: download_and_install returns to its caller.
AfterInstall(f) == IF f = "install" THEN "done" ELSE AfterDownloadAndInstall(f)

\* After write_env_vars: run_module goes on to run(name, args, env_vars, wait).
AfterWriteEnvVars(f) == IF f = "write_env_vars" THEN "done" ELSE "run"

\* A step that ends at pc value p: a call that is done has returned None.
Goto(p) ==
  /\ pc' = p
  /\ result' = IF p = "done" THEN Returned("None") ELSE result

Raise(e) ==
  /\ pc' = "done"
  /\ result' = Raised(e)

\* --------------------------------------------------- download_and_install

\* should_use_cache = cache and exists(name), with exists' outcome given.
ShouldUseCache(cache, existsOutcome) == cache /\ existsOutcome = "True"

\* Line 153, and the branch of lines 155-166: exists(name) is evaluated only when
\* cache is true; an exception other than ImportError escapes it. A unit that
\* exists' import ran is in sys.modules afterwards.
DaiCheckCache ==
  /\ pc = "dai"
  /\ LET o == IF args.cache THEN ExistsOutcome(args.name, installed, loaded) ELSE "False"
     IN  /\ loaded' = IF args.cache /\ o = "True" THEN loaded \cup {args.name} ELSE loaded
         /\ IF o \notin {"True", "False"}
              THEN /\ Raise(Err(o, 0, << >>, "none"))
                   /\ UNCHANGED <<module_path, nFetch>>
              ELSE IF ShouldUseCache(args.cache, o)
                THEN /\ Goto(AfterDownloadAndInstall(op))
                     /\ UNCHANGED <<module_path, nFetch>>
                ELSE IF StartsWithS3(args.uri)
                  THEN /\ Goto("tmpdir_enter")
                       /\ UNCHANGED <<module_path, nFetch>>
                  ELSE /\ module_path' = StripFileScheme(args.uri)
                       /\ nFetch' = nFetch + 1
                       /\ Goto("prepare")
  /\ UNCHANGED <<fs, installed, env, executable, op, args, tmpdir, tmpCount, proc, calls,
                 nPrepare, nInstall, nSpawn, nImport, env0, fs0, exists0, workdir>>

\* The file system without directory d and everything below it (rmtree).
RemoveTree(fsv, d) == [q \in {x \in DOMAIN fsv : ~IsPrefix(d, x)} |-> fsv[q]]

\* `with _files.tmpdir() as tmpdir:` is entered: a fresh directory.
TmpdirEnter ==
  /\ pc = "tmpdir_enter"
  /\ tmpCount' = tmpCount + 1
  /\ tmpdir' = TmpDir(tmpCount + 1)
  /\ workdir' = TmpDir(tmpCount + 1)
  /\ fs' = [q \in DOMAIN fs \cup {TmpDir(tmpCount + 1)} |->
              IF q = TmpDir(tmpCount + 1) THEN EmptyDir ELSE fs[q]]
  /\ pc' = "s3_download"
  /\ UNCHANGED <<installed, loaded, env, executable, op, args, module_path, proc, result,
                 calls, nFetch, nPrepare, nInstall, nSpawn, nImport, env0, fs0, exists0>>

\* s3_download(uri, dst) with dst = tmpdir/tar_file: the scheme check, then the
\* download, which succeeds or fails. An exception leaves the with block, which
\* removes the directory.
S3Download ==
  /\ pc = "s3_download"
  /\ nFetch' = nFetch + 1
  /\ IF UrlScheme(args.uri) # "s3"
       THEN /\ Raise(Err("ValueError", 0, << >>, "none"))
            /\ fs' = RemoveTree(fs, tmpdir)
            /\ tmpdir' = << >>
       ELSE \E ok \in BOOLEAN :
              IF ok
                THEN /\ fs' = [fs EXCEPT ![tmpdir]["tar_file"] = <<"tar", args.uri[3]>>]
                     /\ pc' = "extract"
                     /\ UNCHANGED <<result, tmpdir>>
                ELSE /\ Raise(Err("DownloadError", 0, << >>, "none"))
                     /\ fs' = RemoveTree(fs, tmpdir)
                     /\ tmpdir' = << >>
  /\ UNCHANGED <<installed, loaded, env, executable, op, args, module_path, tmpCount, proc,
                 calls, nPrepare, nInstall, nSpawn, nImport, env0, fs0, exists0, workdir>>

\* Lines 160-164: module_path = tmpdir/module_dir is made and the archive is
\* extracted into it.
Extract ==
  /\ pc = "extract"
  /\ module_path' = PathJoin(tmpdir, "module_dir")
  /\ fs' = [q \in DOMAIN fs \cup {PathJoin(tmpdir, "module_dir")} |->
              IF q = PathJoin(tmpdir, "module_dir") THEN S3Archive ELSE fs[q]]
  /\ pc' = "tmpdir_exit"
  /\ UNCHANGED <<installed, loaded, env, executable, op, args, tmpdir, tmpCount, proc,
                 result, calls, nFetch, nPrepare, nInstall, nSpawn, nImport, env0, fs0,
                 exists0, workdir>>

\* The with block of lines 157-164 ends: the temporary directory is removed.
\* prepare and install (lines 168, 170) come after it.
TmpdirExit ==
  /\ pc = "tmpdir_exit"
  /\ fs' = RemoveTree(fs, tmpdir)
  /\ tmpdir' = << >>
  /\ pc' = "prepare"
  /\ UNCHANGED <<installed, loaded, env, executable, op, args, module_path, tmpCount, proc,
                 result, calls, nFetch, nPrepare, nInstall, nSpawn, nImport, env0, fs0,
                 exists0, workdir>>

\* prepare(module_path, name)
Prepare ==
  /\ pc = "prepare"
  /\ nPrepare' = nPrepare + 1
  /\ fs0' = fs
  /\ IF FileExists(fs, module_path, "setup.py")
       THEN /\ fs' = PrepareFs(fs, module_path, args.name)
            /\ Goto(AfterPrepare(op))
       ELSE IF WriteFileFails(fs, module_path)
         THEN /\ Raise(Err("IOError", 0, << >>, "none"))
              /\ fs' = fs
         ELSE /\ fs' = PrepareFs(fs, module_path, args.name)
              /\ Goto(AfterPrepare(op))
  /\ UNCHANGED <<installed, loaded, env, executable, op, args, module_path, tmpdir,
                 tmpCount, proc, calls, nFetch, nInstall, nSpawn, nImport, env0, exists0,
                 workdir>>

\* ------------------------------------------------------ child processes

\* _make_process(cmd, **kwargs): subprocess.Popen(cmd, env=os.environ, **kwargs).
\* The child gets the environment as it is when it is spawned.
MakeProcess(kind, cmd, environ, cwd) ==
  [kind |-> kind, cmd |-> cmd, env |-> environ, cwd |-> cwd, state |-> "running", rc |-> 0]

\* The exit codes the child may end with: pip fails without a setup.py in its
\* directory, `python -m name` fails unless an installed unit `name` runs.
PossibleExitCodes(p) ==
  IF p.kind = "pip"
    THEN IF FileExists(fs, p.cwd, "setup.py") /\ FileExists(fs, p.cwd, "script.py")
           THEN ExitCodes ELSE ExitCodes \ {0}
    ELSE IF installed[p.cmd[Len(executable) + 2]] = "ok" THEN ExitCodes ELSE ExitCodes \ {0}

\* The units installed once pip ended with exit code rc in directory cwd: the unit
\* of the directory's script, when pip succeeded.
PipInstalls(inst, fsv, cwd, rc) ==
  IF rc = 0 /\ FileExists(fsv, cwd, "script.py")
    THEN [inst EXCEPT ![fsv[cwd]["script.py"][2]] = fsv[cwd]["script.py"][3]]
    ELSE inst

\* The running child exits.
ChildExit ==
  /\ proc.state = "running"
  /\ \E rc \in PossibleExitCodes(proc) :
       /\ proc' = [proc EXCEPT !.state = "exited", !.rc = rc]
       /\ installed' = IF proc.kind = "pip" THEN PipInstalls(installed, fs, proc.cwd, rc)
                       ELSE installed
  /\ UNCHANGED <<fs, loaded, env, executable, pc, op, args, module_path, tmpdir, tmpCount,
                 result, calls, nFetch, nPrepare, nInstall, nSpawn, nImport, env0, fs0,
                 exists0, workdir>>

\* ----------------------------------------------------------------- install

\* install(path) up to the Popen of _check_error: sys.executable is checked, the
\* command is built and split, and pip is spawned in directory path (Popen fails
\* when that directory does not exist).
InstallStart ==
  /\ pc = "install"
  /\ IF executable = << >>
       THEN /\ Raise(Err("RuntimeError", 0, << >>, "none"))
            /\ UNCHANGED <<proc, nInstall>>
       ELSE IF module_path \notin DOMAIN fs
         THEN /\ Raise(Err("OSError", 0, << >>, "none"))
              /\ UNCHANGED <<proc, nInstall>>
         ELSE /\ proc' = MakeProcess("pip",
                           ShlexSplit(InstallCmdString(executable,
                              FileExists(fs, module_path, "requirements.txt"))),
                           env, module_path)
              /\ nInstall' = nInstall + 1
              /\ pc' = "install_wait"
              /\ UNCHANGED result
  /\ UNCHANGED <<fs, installed, loaded, env, executable, op, args, module_path, tmpdir,
                 tmpCount, calls, nFetch, nPrepare, nSpawn, nImport, env0, fs0, exists0,
                 workdir>>

\* A variant of InstallWait that goes on whatever the installer's exit code.
InstallWait_IgnoresFailure ==
  /\ pc = "install_wait"
  /\ proc.state = "exited"
  /\ Goto(AfterInstall(op))
  /\ UNCHANGED <<fs, installed, loaded, env, executable, op, args, module_path, tmpdir,
                 tmpCount, proc, calls, nFetch, nPrepare, nInstall, nSpawn, nImport, env0,
                 fs0, exists0, workdir>>

\* _check_error after process.wait() returned, for install.
InstallWait ==
  /\ pc = "install_wait"
  /\ proc.state = "exited"
  /\ LET r == CheckErrorResult(proc.rc, proc.cmd, "InstallModuleError")
     IN  IF r.status = "raised"
           THEN /\ pc' = "done"
                /\ result' = r
           ELSE Goto(AfterInstall(op))
  /\ UNCHANGED <<fs, installed, loaded, env, executable, op, args, module_path, tmpdir,
                 tmpCount, proc, calls, nFetch, nPrepare, nInstall, nSpawn, nImport, env0,
                 fs0, exists0, workdir>>

\* ----------------------------------------------------------- import_module

\* Lines 274-280: import and reload the unit; any Exception is wrapped.
ImportStep ==
  /\ pc = "import"
  /\ nImport' = nImport + 1
  /\ loaded' = IF ImportOutcome(args.name, installed, loaded) \in {"cached", "ok"}
                 THEN loaded \cup {args.name} ELSE loaded
  /\ result' = ImportModuleResult(ImportAndReload(args.name, installed, loaded))
  /\ pc' = "done"
  /\ UNCHANGED <<fs, installed, env, executable, op, args, module_path, tmpdir, tmpCount,
                 proc, calls, nFetch, nPrepare, nInstall, nSpawn, env0, fs0, exists0,
                 workdir>>

\* -------------------------------------------------- write_env_vars and run

\* write_env_vars(env_vars)
WriteEnvVars ==
  /\ pc = "write_env"
  /\ env' = WriteEnvVarsResult(env, args.env_vars)
  /\ Goto(AfterWriteEnvVars(op))
  /\ UNCHANGED <<fs, installed, loaded, executable, op, args, module_path, tmpdir,
                 tmpCount, proc, calls, nFetch, nPrepare, nInstall, nSpawn, nImport, env0,
                 fs0, exists0, workdir>>

\* The environment run hands to the child it spawns: _make_process passes
\* os.environ; run's env_vars goes to the log only.
ChildEnv(environ, env_vars) == environ

\* run(module_name, args, env_vars, wait) up to the Popen: with wait the call
\* goes on to wait for the child, without it the live process is returned.
RunSpawn ==
  /\ pc = "run"
  /\ IF executable = << >>
       THEN /\ Raise(Err("RuntimeError", 0, << >>, "none"))
            /\ UNCHANGED <<proc, nSpawn>>
       ELSE /\ proc' = MakeProcess("script", RunCmd(executable, args.name, args.cmdargs),
                                   ChildEnv(env, args.env_vars), << >>)
            /\ nSpawn' = nSpawn + 1
            /\ IF args.wait
                 THEN /\ pc' = "run_wait"
                      /\ UNCHANGED result
                 ELSE /\ pc' = "done"
                      /\ result' = Returned("process")
  /\ UNCHANGED <<fs, installed, loaded, env, executable, op, args, module_path, tmpdir,
                 tmpCount, calls, nFetch, nPrepare, nInstall, nImport, env0, fs0, exists0,
                 workdir>>

\* _check_error after process.wait() returned, for run with wait.
RunWait ==
  /\ pc = "run_wait"
  /\ proc.state = "exited"
  /\ result' = CheckErrorResult(proc.rc, proc.cmd, "ExecuteUserScriptError")
  /\ pc' = "done"
  /\ UNCHANGED <<fs, installed, loaded, env, executable, op, args, module_path, tmpdir,
                 tmpCount, proc, calls, nFetch, nPrepare, nInstall, nSpawn, nImport, env0,
                 fs0, exists0, workdir>>

\* ---------------------------------------------------------- specification

Next ==
  \/ CallDownloadAndInstall
  \/ CallImportModule
  \/ CallRunModule
  \/ CallRun
  \/ CallInstall
  \/ CallPrepare
  \/ CallWriteEnvVars
  \/ DaiCheckCache
  \/ TmpdirEnter
  \/ S3Download
  \/ Extract
  \/ TmpdirExit
  \/ Prepare
  \/ InstallStart
  \/ ChildExit
  \/ InstallWait
  \/ ImportStep
  \/ WriteEnvVars
  \/ RunSpawn
  \/ RunWait

Spec == Init /\ [][Next]_vars

\* ----------------------------------------------------------------- claims

\* The functions that begin with download_and_install.
DaiOps == {"download_and_install", "import_module", "run_module"}

\* Environment e is E with O laid over it: O's keys have O's values, E's other
\* keys keep E's values, and there is no other key.
EnvIsOverlaid(e, E, O) ==
  /\ DOMAIN e = (DOMAIN E) \cup (DOMAIN O)
  /\ \A k \in DOMAIN O : e[k] = O[k]
  /\ \A k \in (DOMAIN E) \ (DOMAIN O) : e[k] = E[k]

\* C1: download_and_install(uri, name, cache) does no fetch, no prepare and no
\* installer invocation when cache is true and the unit is resolvable; otherwise
\* it does exactly one fetch, one prepare and one installer invocation. Stated for
\* the calls on an s3 or a local uri in which nothing outside the module fails
\* (the interpreter is known, the download, if any, succeeded) and exists(name)
\* gave an answer.
C1_CacheContract ==
  (/\ op = "download_and_install"
   /\ pc = "done"
   /\ args.uri \in {UriS3, UriLocal, UriFile}
   /\ exists0 \in {"True", "False"}
   /\ executable # << >>
   /\ result.err.type # "DownloadError")
  => IF args.cache /\ exists0 = "True"
       THEN nFetch = 0 /\ nPrepare = 0 /\ nInstall = 0
       ELSE nFetch = 1 /\ nPrepare = 1 /\ nInstall = 1

\* Errors raised by the fetch, prepare and install stages or by the missing
\* interpreter, not by importing the unit.
StageErrors == {"DownloadError", "IOError", "OSError", "RuntimeError", "InstallModuleError"}

\* C2: when importing the unit fails, because of the unit's own top-level code
\* included, import_module raises ImportModuleError wrapping that error: an
\* import_module call that raises anything but a stage's error raises
\* ImportModuleError.
C2_ImportErrorsWrapped ==
  (/\ op = "import_module"
   /\ pc = "done"
   /\ result.status = "raised"
   /\ result.err.type \notin StageErrors)
  => result.err.type = "ImportModuleError"

\* C3: run with wait=True spawns the child exactly once and does not return
\* before the child has exited; exit code 0 returns the process, exit code c # 0
\* raises ExecuteUserScriptError with return_code c and the joined command line.
C3_RunWaitsAndChecks ==
  (op = "run" /\ args.wait) =>
    /\ nSpawn <= 1
    /\ (pc = "run_wait" => nSpawn = 1 /\ result.status = "none")
    /\ (pc = "done" /\ executable # << >> => nSpawn = 1)
    /\ (pc = "done" /\ nSpawn = 1 =>
          /\ proc.kind = "script"
          /\ proc.state = "exited"
          /\ proc.cmd = executable \o <<"-m", args.name>> \o args.cmdargs
          /\ (proc.rc = 0 => result = Returned("process"))
          /\ (proc.rc # 0 =>
                result = Raised(Err("ExecuteUserScriptError", proc.rc,
                                    Join(executable \o <<"-m", args.name>> \o args.cmdargs),
                                    "none"))))

\* A waited run of `python -m my_test_script --x 1` with FOO=bar that ended with
\* exit code 3 and raised ExecuteUserScriptError.
C3_Witness ==
  /\ op = "run" /\ args.wait /\ pc = "done"
  /\ args.cmdargs = <<"--x", "1">>
  /\ "FOO" \in DOMAIN args.env_vars
  /\ proc.state = "exited" /\ proc.rc = 3
  /\ result.err.type = "ExecuteUserScriptError" /\ result.err.rc = 3

\* C4: the child that run(module_name, args, env_vars=O, wait) spawns receives
\* the ambient environment E overlaid with O.
C4_ChildGetsOverlay ==
  (op = "run" /\ proc.kind = "script") => EnvIsOverlaid(proc.env, env0, args.env_vars)

\* The stages of download_and_install.
DaiStages == {"dai", "tmpdir_enter", "s3_download", "extract", "tmpdir_exit", "prepare",
              "install", "install_wait"}

\* download_and_install has returned to its caller: it used the cache, or it
\* fetched, prepared and installed once.
DaiCompleted ==
  \/ args.cache /\ exists0 = "True" /\ nFetch = 0 /\ nPrepare = 0 /\ nInstall = 0
  \/ nFetch = 1 /\ nPrepare = 1 /\ nInstall = 1

\* C5: run_module runs download_and_install to its end, then writes the overlay
\* into os.environ, then spawns the child: the environment is untouched and no
\* child is spawned while download_and_install runs, the child is spawned with the
\* overlaid environment, and that environment stays in place when run_module ends.
C5_RunModuleOrder ==
  (op = "run_module") =>
    /\ (pc \in DaiStages \cup {"write_env"} => env = env0 /\ nSpawn = 0)
    /\ (pc \in {"write_env", "run", "run_wait"} => DaiCompleted)
    /\ (pc = "run" => nSpawn = 0 /\ EnvIsOverlaid(env, env0, args.env_vars))
    /\ (nSpawn > 0 =>
          /\ nSpawn = 1
          /\ DaiCompleted
          /\ proc.kind = "script"
          /\ EnvIsOverlaid(proc.env, env0, args.env_vars)
          /\ EnvIsOverlaid(env, env0, args.env_vars))
    /\ (pc = "done" /\ result.err.type \in {"none", "ExecuteUserScriptError"} =>
          nSpawn = 1)

\* run_module with an overlay that overrides FOO and adds MODEL_DIR has ended
\* after spawning its child: the process and the child both hold the overlay.
C5_Witness ==
  /\ op = "run_module" /\ pc = "done" /\ nSpawn = 1 /\ nInstall = 1
  /\ "FOO" \in DOMAIN args.env_vars
  /\ env0["FOO"] = "old" /\ env["FOO"] = "bar" /\ env["PATH"] = "/usr/bin"
  /\ proc.env["FOO"] = "bar" /\ proc.env["MODEL_DIR"] = "/opt/ml/model"

\* C6: install starts the installer at most once per call and does not go on
\* before it has exited; when the installer exits with code c # 0 the call ends
\* right there with InstallModuleError(return_code = c, cmd = the joined command):
\* no second installer, no import of the unit, no write to os.environ, no child.
C6_InstallFailureIsFatal ==
  /\ nInstall <= 1
  /\ (pc = "install_wait" => nInstall = 1 /\ proc.kind = "pip" /\ result.status = "none")
  /\ (proc.kind = "pip" /\ pc # "install_wait" => proc.state = "exited")
  /\ (op \in DaiOps \cup {"install"} /\ pc = "done"
        /\ result.err.type \in {"none", "InstallModuleError"}
        /\ ~(op \in DaiOps /\ args.cache /\ exists0 = "True")
      => nInstall = 1)
  /\ (proc.kind = "pip" /\ proc.state = "exited" /\ proc.rc # 0 /\ pc # "install_wait" =>
        /\ pc = "done"
        /\ op \in DaiOps \cup {"install"}
        /\ result = Raised(Err("InstallModuleError", proc.rc, Join(proc.cmd), "none"))
        /\ nInstall = 1
        /\ nImport = 0
        /\ nSpawn = 0
        /\ env = env0)
  /\ (result.err.type = "InstallModuleError" =>
        proc.kind = "pip" /\ proc.state = "exited" /\ proc.rc # 0)

\* import_module has ended with InstallModuleError(return_code = 3) and never
\* imported the unit.
C6_Witness ==
  /\ op = "import_module" /\ pc = "done"
  /\ result.err.type = "InstallModuleError" /\ result.err.rc = 3
  /\ result.err.cmd = <<"/usr/bin/python", " ", "-m", " ", "pip", " ", "install", " ",
                        "-U", " ", ".">>
  /\ nInstall = 1 /\ nImport = 0

\* C7: a uri that is neither an s3 uri nor a local path (http://...) makes the
\* fetch of download_and_install fail with the invalid-location error (the
\* ValueError of s3_download), and neither prepare nor install runs.
C7_UnknownSchemeRejected ==
  (op \in DaiOps /\ args.uri = UriHttp) =>
    /\ nPrepare = 0
    /\ nInstall = 0
    /\ pc \notin {"prepare", "install", "install_wait"}
    /\ (pc = "done" /\ ~(args.cache /\ exists0 = "True") /\ exists0 \in {"True", "False"}
          => result.err.type = "ValueError")

\* The files prepare generates.
SetupFiles == {"setup.py", "setup.cfg", "MANIFEST.in"}

\* prepare has just returned: to the caller of prepare, or to download_and_install,
\* which goes on to install.
PrepareReturned ==
  /\ nPrepare = 1
  /\ \/ op = "prepare" /\ pc = "done" /\ result.status = "returned"
     \/ op \in DaiOps /\ pc = "install"

\* The files of directory `after` that directory `before` did not hold.
NewFiles(before, after) == {f \in FileNames : before[f] = Absent /\ after[f] # Absent}

\* C8 as stated: with setup.py in the directory prepare changes nothing; without
\* it prepare produces exactly three new files and leaves every file that was
\* already in the directory unchanged.
C8_ThreeNewFilesOthersUnchanged ==
  PrepareReturned =>
    IF fs0[module_path]["setup.py"] # Absent
      THEN fs = fs0
      ELSE /\ NewFiles(fs0[module_path], fs[module_path]) = SetupFiles
           /\ \A f \in FileNames :
                fs0[module_path][f] # Absent => fs[module_path][f] = fs0[module_path][f]

\* C8 amended: with setup.py in the directory prepare changes nothing; without
\* it prepare writes setup.py (naming the unit), setup.cfg and MANIFEST.in with
\* the generated contents, over a setup.cfg or MANIFEST.in that was there, and
\* leaves every other file and every other directory unchanged; the new files are
\* those of the three that were missing.
C8_PrepareWritesSetupFiles ==
  PrepareReturned =>
    IF fs0[module_path]["setup.py"] # Absent
      THEN fs = fs0
      ELSE /\ DOMAIN fs = DOMAIN fs0
           /\ \A d \in DOMAIN fs : d # module_path => fs[d] = fs0[d]
           /\ fs[module_path]["setup.py"] = <<"generated setup.py", args.name>>
           /\ fs[module_path]["setup.cfg"] = <<"generated setup.cfg">>
           /\ fs[module_path]["MANIFEST.in"] = <<"generated MANIFEST.in">>
           /\ \A f \in FileNames \ SetupFiles : fs[module_path][f] = fs0[module_path][f]
           /\ NewFiles(fs0[module_path], fs[module_path])
                = {f \in SetupFiles : fs0[module_path][f] = Absent}

\* prepare returned after writing over the user's setup.cfg in a directory that
\* had no setup.py.
C8_Witness ==
  /\ op = "prepare" /\ pc = "done" /\ result.status = "returned" /\ nPrepare = 1
  /\ fs0[module_path]["setup.py"] = Absent
  /\ fs0[module_path]["setup.cfg"] = UserFile
  /\ fs[module_path]["setup.cfg"] = GenSetupCfg
  /\ fs[module_path]["script.py"] = fs0[module_path]["script.py"]

\* The command holds `-r requirements.txt`.
HasRequirementsOption(cmd) ==
  \E i \in 1..(Len(cmd) - 1) : cmd[i] = "-r" /\ cmd[i + 1] = "requirements.txt"

C10_WorkdirLivesThroughInstall ==
  (op \in DaiOps /\ workdir # << >>) =>
    /\ (pc \in {"prepare", "install", "install_wait"} =>
          /\ workdir \in DOMAIN fs
          /\ module_path \in DOMAIN fs
          /\ IsPrefix(workdir, module_path))
    /\ (pc = "done" => workdir \notin DOMAIN fs)

====
